---- MODULE Spec2Model ----
(***************************************************************************)
(* Duplicate House Number Finder (src/app.py): the widgets that configure  *)
(* a detection run and the duplicate detection itself: composite keys,     *)
(* the KD-tree radius query and the loop that fills duplicate_indices.     *)
(*                                                                         *)
(* Record ids are the 0-based positions of the rows of gdf.  Strings are   *)
(* sequences of one-character strings, so that "|".join is a real          *)
(* concatenation.  Coordinates are integer points and distances are        *)
(* compared squared, which is exact for the Euclidean ball                 *)
(* query_ball_point computes.                                              *)
(***************************************************************************)
EXTENDS Integers, Sequences, FiniteSets

VARIABLES
    pc,                 \* position in the script
    gdf,                \* the uploaded layer: id -> [xy, attrs]
    house_num_field,    \* st.selectbox
    extra_fields,       \* st.multiselect, in selection order
    entered,            \* the number typed into the threshold widget
    distance_threshold, \* the value st.number_input returns
    coords,             \* id -> point
    composite_keys,     \* id -> string
    kdtree,             \* the points the KDTree was built over
    duplicate_indices,  \* set of ids
    i,                  \* outer loop index
    indices,            \* ids of the current radius query still to visit
    discovered,         \* pairs <<a, b>>: iteration a added a because of b
    raised,             \* exception that ended the script, or "none"
    owner,              \* parallel run: id -> worker that processes it
    local,              \* parallel run: worker -> its local duplicate set
    pending,            \* parallel run: ids not yet processed
    merged,             \* parallel run: union of the local sets merged so far
    unmerged            \* parallel run: workers whose local set is not merged

vars == <<pc, gdf, house_num_field, extra_fields, entered, distance_threshold,
          coords, composite_keys, kdtree, duplicate_indices, i, indices,
          discovered, raised, owner, local, pending, merged, unmerged>>

----------------------------------------------------------------------------
(* Bounds of the model *)

MaxN == 3
MaxThreshold == 1

(* Program constants *)

MinValue == 1
DefaultThreshold == 25

----------------------------------------------------------------------------
(* Input domains *)

Sep == "|"

None == [null |-> TRUE, s |-> <<>>]
Val(s) == [null |-> FALSE, s |-> s]

NoneText == <<"N", "o", "n", "e">>

Columns == <<"house", "street">>
ColumnSet == {Columns[k] : k \in 1..Len(Columns)}

\* three corners of a unit square: distances 0, 1 and sqrt(2)
Points == {<<0, 0>>, <<1, 0>>, <<0, 1>>}

Rows == { [house |-> Val(<<"1">>), street |-> Val(<<"A">>)],
          [house |-> Val(<<"1">>), street |-> None],
          [house |-> Val(<<"2">>), street |-> Val(<<"A">>)] }

\* attribute values that contain the separator character
KeyRows == [house : {Val(<<"1">>), Val(<<"1", "|", "1">>)},
            street : {Val(<<"1">>), Val(<<"1", "|", "1">>)}]

\* rows that differ in the house number only
HouseRows == {r \in Rows : ~r.street.null}

Ids(g) == DOMAIN g

LayersOf(P, R, lo, hi) == UNION {[0..(n - 1) -> [xy : P, attrs : R]] : n \in lo..hi}

Layers(lo, hi) == LayersOf(Points, Rows, lo, hi)

Workers == {"w1", "w2"}

Entries == (MinValue - 2)..MaxThreshold

Thresholds == (MinValue..MaxThreshold) \cup {DefaultThreshold}

ExtraChoices(hf) == {<<>>} \cup {<<c>> : c \in ColumnSet \ {hf}}

----------------------------------------------------------------------------
(* make_key *)

\* a missing value stringified as the empty string
StrNullEmpty(v) == IF v.null THEN <<>> ELSE v.s

Str(v) == IF v.null THEN NoneText ELSE v.s

RECURSIVE Join(_, _)
Join(parts, sep) ==
    IF Len(parts) = 0 THEN <<>>
    ELSE IF Len(parts) = 1 THEN parts[1]
    ELSE parts[1] \o <<sep>> \o Join(Tail(parts), sep)

KeyParts(row, hf, ef) == <<Str(row[hf])>> \o [k \in 1..Len(ef) |-> Str(row[ef[k]])]

MakeKey(row, hf, ef) == Join(KeyParts(row, hf, ef), Sep)

----------------------------------------------------------------------------
(* KDTree and query_ball_point *)

Dist2(p, q) == (p[1] - q[1]) * (p[1] - q[1]) + (p[2] - q[2]) * (p[2] - q[2])

KDTree(cs) == cs

\* an open ball: points exactly r away are left out
QueryBallPointOpen(tree, point, r) ==
    {j \in DOMAIN tree : Dist2(tree[j], point) < r * r}

\* the query point is excluded by distance 0 instead of by index
QueryBallPointNonZero(tree, point, r) ==
    {j \in DOMAIN tree : Dist2(tree[j], point) <= r * r /\ Dist2(tree[j], point) > 0}

QueryBallPoint(tree, point, r) ==
    {j \in DOMAIN tree : Dist2(tree[j], point) <= r * r}

----------------------------------------------------------------------------
(* the detection loop *)

\* the key comparison is dropped
VisitAnyKey(keys, a, j, dup) ==
    IF j # a THEN dup \cup {a, j} ELSE dup

\* the j != i test is dropped
VisitWithSelf(keys, a, j, dup) ==
    IF keys[j] = keys[a] THEN dup \cup {a, j} ELSE dup

\* only the neighbour is inserted
VisitNeighbourOnly(keys, a, j, dup) ==
    IF j # a /\ keys[j] = keys[a] THEN dup \cup {j} ELSE dup

\* pairs are looked at once, from the lower id, and only the neighbour is inserted
VisitForward(keys, a, j, dup) ==
    IF j > a /\ keys[j] = keys[a] THEN dup \cup {j} ELSE dup

\* a record already in the set is not examined again
VisitUnlessSeen(keys, a, j, dup) ==
    IF j # a /\ keys[j] = keys[a] /\ a \notin dup THEN dup \cup {j} ELSE dup

Visit(keys, a, j, dup) ==
    IF j # a /\ keys[j] = keys[a] THEN dup \cup {a, j} ELSE dup

RECURSIVE VisitAll(_, _, _, _)
VisitAll(keys, a, js, dup) ==
    IF js = {} THEN dup
    ELSE LET j == CHOOSE x \in js : TRUE
         IN  VisitAll(keys, a, js \ {j}, Visit(keys, a, j, dup))

LoopBody(cs, keys, r, a, dup) ==
    VisitAll(keys, a, QueryBallPoint(KDTree(cs), cs[a], r), dup)

RECURSIVE RunFrom(_, _, _, _, _)
RunFrom(cs, keys, r, a, dup) ==
    IF a \notin DOMAIN cs THEN dup
    ELSE RunFrom(cs, keys, r, a + 1, LoopBody(cs, keys, r, a, dup))

DetectDuplicates(g, hf, ef, r) ==
    RunFrom([id \in Ids(g) |-> g[id].xy],
            [id \in Ids(g) |-> MakeKey(g[id].attrs, hf, ef)], r, 0, {})

----------------------------------------------------------------------------
(* the widgets *)

\* min_value is not enforced
NumberInputNoMin(old, typed) == {typed}

NumberInput(old, typed) ==
    IF typed >= MinValue THEN {typed} ELSE {old, MinValue}

Idle ==
    /\ coords = <<>> /\ composite_keys = <<>> /\ kdtree = <<>>
    /\ duplicate_indices = {} /\ i = 0 /\ indices = {} /\ discovered = {}
    /\ raised = "none"
    /\ owner = <<>> /\ local = <<>> /\ pending = {} /\ merged = {} /\ unmerged = {}

Init ==
    /\ pc = "widgets"
    /\ gdf \in Layers(0, MaxN - 1)
    /\ house_num_field = Columns[1]
    /\ extra_fields = <<>>
    /\ entered = DefaultThreshold
    /\ distance_threshold = DefaultThreshold
    /\ Idle

par == <<owner, local, pending, merged, unmerged>>
run == <<coords, composite_keys, kdtree, duplicate_indices, i, indices, discovered, raised>>

SelectHouseField ==
    /\ pc = "widgets"
    /\ \E c \in ColumnSet \ {house_num_field} :
          /\ house_num_field' = c
          /\ extra_fields' = <<>>
    /\ UNCHANGED <<pc, gdf, entered, distance_threshold, run, par>>

SelectExtraFields ==
    /\ pc = "widgets"
    /\ \E ef \in ExtraChoices(house_num_field) \ {extra_fields} : extra_fields' = ef
    /\ UNCHANGED <<pc, gdf, house_num_field, entered, distance_threshold, run, par>>

EnterThreshold ==
    /\ pc = "widgets"
    /\ \E typed \in Entries :
          /\ entered' = typed
          /\ distance_threshold' \in NumberInput(distance_threshold, typed)
    /\ UNCHANGED <<pc, gdf, house_num_field, extra_fields, run, par>>

ClickFind ==
    /\ pc = "widgets"
    /\ pc' = "clicked"
    /\ UNCHANGED <<gdf, house_num_field, extra_fields, entered, distance_threshold, run, par>>

----------------------------------------------------------------------------
(* the detection run *)

cfg == <<gdf, house_num_field, extra_fields, entered, distance_threshold>>

ReadCoords ==
    /\ pc = "clicked"
    /\ coords' = [id \in Ids(gdf) |-> gdf[id].xy]
    /\ pc' = "make_keys"
    /\ UNCHANGED <<cfg, composite_keys, kdtree, duplicate_indices, i, indices,
                   discovered, raised, par>>

ApplyMakeKey ==
    /\ pc = "make_keys"
    /\ Ids(gdf) # {}
    /\ composite_keys' =
          [id \in Ids(gdf) |-> MakeKey(gdf[id].attrs, house_num_field, extra_fields)]
    /\ pc' = "build"
    /\ UNCHANGED <<cfg, coords, kdtree, duplicate_indices, i, indices,
                   discovered, raised, par>>

EmptyLayer ==
    /\ pc = "make_keys"
    /\ Ids(gdf) = {}
    /\ raised' \in {"AttributeError", "ValueError"}
    /\ pc' = "crashed"
    /\ UNCHANGED <<cfg, coords, composite_keys, kdtree, duplicate_indices, i,
                   indices, discovered, par>>

BuildIndex ==
    /\ pc = "build"
    /\ kdtree' = KDTree(coords)
    /\ duplicate_indices' = {}
    /\ i' = 0
    /\ pc' = "outer"
    /\ UNCHANGED <<cfg, coords, composite_keys, indices, discovered, raised, par>>

Query ==
    /\ pc = "outer"
    /\ i \in DOMAIN coords
    /\ indices' = QueryBallPoint(kdtree, coords[i], distance_threshold)
    /\ pc' = "inner"
    /\ UNCHANGED <<cfg, coords, composite_keys, kdtree, duplicate_indices, i,
                   discovered, raised, par>>

VisitNeighbour ==
    /\ pc = "inner"
    /\ \E j \in indices :
          /\ duplicate_indices' = Visit(composite_keys, i, j, duplicate_indices)
          /\ discovered' = IF i \in Visit(composite_keys, i, j, {})
                           THEN discovered \cup {<<i, j>>} ELSE discovered
          /\ indices' = indices \ {j}
          /\ IF indices' = {}
             THEN i' = i + 1 /\ pc' = "outer"
             ELSE i' = i /\ pc' = "inner"
    /\ UNCHANGED <<cfg, coords, composite_keys, kdtree, raised, par>>

Finish ==
    /\ pc = "outer"
    /\ i \notin DOMAIN coords
    /\ pc' = "done"
    /\ UNCHANGED <<cfg, run, par>>

Detect == ReadCoords \/ ApplyMakeKey \/ EmptyLayer \/ BuildIndex \/ Query
             \/ VisitNeighbour \/ Finish

Next == SelectHouseField \/ SelectExtraFields \/ EnterThreshold \/ ClickFind \/ Detect

Spec == Init /\ [][Next]_vars

----------------------------------------------------------------------------
(* Detection runs started from every configuration a click can leave *)

InitLoop ==
    /\ pc = "clicked"
    /\ gdf \in Layers(0, MaxN)
    /\ house_num_field = Columns[1]
    /\ extra_fields \in ExtraChoices(house_num_field)
    /\ distance_threshold \in Thresholds
    /\ entered = distance_threshold
    /\ Idle

SpecLoop == InitLoop /\ [][Detect]_vars

(* Detection runs over attribute values that contain the separator *)

InitKey ==
    /\ pc = "clicked"
    /\ gdf \in LayersOf({<<0, 0>>}, KeyRows, 0, 2)
    /\ house_num_field \in ColumnSet
    /\ extra_fields \in ExtraChoices(house_num_field)
    /\ distance_threshold = DefaultThreshold
    /\ entered = distance_threshold
    /\ Idle

SpecKey == InitKey /\ [][Detect]_vars

----------------------------------------------------------------------------
(* The outer loop split among workers: every worker runs the loop body on  *)
(* the records it owns, against the shared coords, composite_keys and      *)
(* index, into its own local set; the local sets are then united.          *)

InitPar ==
    /\ pc = "parallel"
    /\ gdf \in LayersOf(Points, HouseRows, 1, MaxN)
    /\ house_num_field = Columns[1]
    /\ extra_fields = <<>>
    /\ distance_threshold = MinValue
    /\ entered = distance_threshold
    /\ coords = [id \in Ids(gdf) |-> gdf[id].xy]
    /\ composite_keys =
          [id \in Ids(gdf) |-> MakeKey(gdf[id].attrs, house_num_field, extra_fields)]
    /\ kdtree = KDTree(coords)
    /\ duplicate_indices = {} /\ i = 0 /\ indices = {} /\ discovered = {}
    /\ raised = "none"
    /\ owner \in [Ids(gdf) -> Workers]
    /\ local = [w \in Workers |-> {}]
    /\ pending = Ids(gdf)
    /\ merged = {}
    /\ unmerged = Workers

WorkerStep ==
    /\ pc = "parallel"
    /\ \E id \in pending :
          /\ local' = [local EXCEPT ![owner[id]] =
                          LoopBody(coords, composite_keys, distance_threshold, id, @)]
          /\ pending' = pending \ {id}
    /\ UNCHANGED <<pc, cfg, run, owner, merged, unmerged>>

MergeLocal ==
    /\ pc = "parallel"
    /\ \E w \in unmerged :
          /\ \A id \in pending : owner[id] # w
          /\ merged' = merged \cup local[w]
          /\ unmerged' = unmerged \ {w}
    /\ UNCHANGED <<pc, cfg, run, owner, local, pending>>

FinishPar ==
    /\ pc = "parallel"
    /\ unmerged = {}
    /\ pc' = "merged"
    /\ UNCHANGED <<cfg, run, par>>

NextPar == WorkerStep \/ MergeLocal \/ FinishPar

SpecPar == InitPar /\ [][NextPar]_vars

----------------------------------------------------------------------------
(* Properties *)

InLoop == pc \in {"outer", "inner", "done"}

Within(a, b) ==
    Dist2(coords[a], coords[b]) <= distance_threshold * distance_threshold

KeyEqual(a, b) == composite_keys[a] = composite_keys[b]

Witness(a, b) == a # b /\ KeyEqual(a, b) /\ Within(a, b)

HasWitness(a) == \E b \in Ids(gdf) : Witness(a, b)

\* The sequential loop, step by step, computes what DetectDuplicates folds.
LoopIsDetectDuplicates ==
    pc = "done" =>
        duplicate_indices =
            DetectDuplicates(gdf, house_num_field, extra_fields, distance_threshold)

\* C1: no false inclusion. When the loop has finished, every id in
\* duplicate_indices has another id in duplicate_indices with the same
\* composite key and within distance_threshold of it.
C1_NoFalseInclusion ==
    pc = "done" =>
        \A a \in duplicate_indices : \E b \in duplicate_indices : Witness(a, b)

C1_Witness ==
    /\ pc = "done"
    /\ duplicate_indices # {}
    /\ \E a \in Ids(gdf) \ duplicate_indices :
          \E b \in duplicate_indices : Within(a, b) /\ ~KeyEqual(a, b)

\* C2: completeness. When the loop has finished, duplicate_indices is exactly
\* the set of records that have a key-equal witness within the threshold.
C2_Completeness ==
    pc = "done" => duplicate_indices = {a \in Ids(gdf) : HasWitness(a)}

C2_Witness ==
    /\ pc = "done"
    /\ \E a, b \in duplicate_indices : a # b /\ KeyEqual(a, b) /\ coords[a] = coords[b]
    /\ duplicate_indices # Ids(gdf)

OnBoundary(a, b) ==
    Dist2(coords[a], coords[b]) = distance_threshold * distance_threshold

\* C3: the threshold is inclusive. Two key-equal records exactly
\* distance_threshold apart are both reported; two key-equal records further
\* apart than distance_threshold, neither of which has another witness, are
\* not reported.
C3_ThresholdBoundary ==
    pc = "done" =>
        \A a, b \in Ids(gdf) :
            (a # b /\ KeyEqual(a, b)) =>
                /\ OnBoundary(a, b) => {a, b} \subseteq duplicate_indices
                /\ (~Within(a, b) /\ ~HasWitness(a) /\ ~HasWitness(b))
                      => {a, b} \cap duplicate_indices = {}

C3_Witness ==
    /\ pc = "done"
    /\ \E a, b \in duplicate_indices :
          /\ a # b /\ KeyEqual(a, b) /\ OnBoundary(a, b)
          /\ \A c \in Ids(gdf) \ {a, b} : ~Witness(a, c) /\ ~Witness(b, c)

Parts(id) == KeyParts(gdf[id].attrs, house_num_field, extra_fields)

\* C4: two records have the same composite key exactly when the stringified
\* primary value and the stringified value of every designated secondary
\* field, in designation order, are equal between them.
C4_KeyEqualIffPartsEqual ==
    pc = "done" =>
        \A a, b \in Ids(gdf) :
            (composite_keys[a] = composite_keys[b]) <=> (Parts(a) = Parts(b))

\* C5: symmetry. When the loop has finished, whenever a was inserted at its
\* own iteration because of b, b was inserted at its own iteration because
\* of a, and every member of duplicate_indices was inserted at its own
\* iteration.
C5_Symmetry ==
    pc = "done" =>
        /\ \A pr \in discovered : <<pr[2], pr[1]>> \in discovered
        /\ \A a \in duplicate_indices : \E b \in Ids(gdf) : <<a, b>> \in discovered

C5_Witness ==
    /\ pc = "done"
    /\ \E a, b, c \in Ids(gdf) :
          /\ a < b /\ b < c
          /\ {<<a, b>>, <<b, a>>, <<b, c>>, <<c, b>>} \subseteq discovered
          /\ <<a, c>> \notin discovered

Reorderings(S) == {p \in [S -> S] : \A x \in S : \E y \in S : p[y] = x}

Permuted(g, p) == [k \in DOMAIN g |-> g[p[k]]]

\* C6: order independence. Running the loop on any permutation of the
\* records (their coordinates and composite keys, both derived record by
\* record) yields, once positions are mapped back to the records they hold,
\* the set the run on the given order yields.
C6_OrderIndependence ==
    pc = "done" =>
        \A p \in Reorderings(Ids(gdf)) :
            {p[k] : k \in RunFrom(Permuted(coords, p), Permuted(composite_keys, p),
                                  distance_threshold, 0, {})}
                = duplicate_indices

C6_Witness ==
    /\ pc = "done"
    /\ Cardinality(Ids(gdf)) = MaxN
    /\ duplicate_indices # {}
    /\ duplicate_indices # Ids(gdf)
    /\ 0 \notin duplicate_indices

\* C7 as stated: a threshold of zero or less is rejected with
\* InvalidThresholdError.
C7_RejectedWithInvalidThresholdError ==
    entered <= 0 => raised = "InvalidThresholdError"

\* C7 as amended: the threshold widget never returns a value below its
\* min_value of 1, whatever is typed, so no run builds the index or issues a
\* radius query with a threshold of zero or less; no exception is raised for
\* the entry.
C7_ThresholdNeverBelowMin ==
    /\ distance_threshold >= MinValue
    /\ (pc \in {"build", "outer", "inner", "done"} => distance_threshold > 0)
    /\ (pc = "widgets" => raised = "none")

C7_Witness ==
    /\ pc = "done"
    /\ entered <= 0
    /\ duplicate_indices # {}

Designated == {house_num_field} \cup {extra_fields[k] : k \in 1..Len(extra_fields)}

Missing(id) == \E f \in Designated : gdf[id].attrs[f].null

Filled(row) == [f \in DOMAIN row |-> IF row[f].null THEN Val(NoneText) ELSE row[f]]

\* C8 as stated: when a designated key field is missing on some record the
\* pass is aborted: it never gets past composite-key derivation.
C8_AbortedOnMissingField ==
    (\E id \in Ids(gdf) : Missing(id)) => pc \notin {"build", "outer", "inner", "done"}

\* C8 as amended: a record without a value in a designated key field does
\* not fail composite-key derivation and is not skipped: the missing value
\* is stringified as the text None, the pass runs on, and the record is
\* reported whenever it has a witness.
C8_MissingValueIsAKey ==
    \A id \in Ids(gdf) :
        Missing(id) =>
            /\ raised = "none"
            /\ InLoop =>
                  composite_keys[id] =
                      MakeKey(Filled(gdf[id].attrs), house_num_field, extra_fields)
            /\ (pc = "done" /\ HasWitness(id)) => id \in duplicate_indices

C8_Witness ==
    /\ pc = "done"
    /\ \E a, b \in duplicate_indices :
          a # b /\ Missing(a) /\ Missing(b) /\ Witness(a, b)

\* C9: the union of the workers' local sets is the set the sequential loop
\* produces, for every assignment of records to workers, every interleaving
\* and every merge order.
C9_ParallelEqualsSequential ==
    pc = "merged" =>
        merged = DetectDuplicates(gdf, house_num_field, extra_fields, distance_threshold)

C9_Witness ==
    /\ pc = "merged"
    /\ \E a, b \in merged : Witness(a, b) /\ owner[a] # owner[b]
    /\ \E w \in Workers : local[w] # {} /\ local[w] # merged

\* C10: in every state of the loop duplicate_indices holds only ids of the
\* input, each with a key-equal witness within the threshold (so never a
\* record on the strength of its own id), it only grows, and coords,
\* composite_keys and the index are what they were built as and stay so.
C10_LoopInvariant ==
    /\ [](InLoop =>
            /\ duplicate_indices \subseteq Ids(gdf)
            /\ \A a \in duplicate_indices : HasWitness(a)
            /\ coords = [id \in Ids(gdf) |-> gdf[id].xy]
            /\ kdtree = coords)
    /\ [][InLoop =>
            /\ duplicate_indices \subseteq duplicate_indices'
            /\ coords' = coords
            /\ composite_keys' = composite_keys
            /\ kdtree' = kdtree]_vars

C10_Witness ==
    /\ pc = "inner"
    /\ i \notin indices
    /\ i \notin duplicate_indices
    /\ duplicate_indices # {}
    /\ indices # {}

====
